---- MODULE Spec2Model ----
(***************************************************************************)
(* A model of pyhkp (src/pyhkp.py): the HKP client class.  Python strings  *)
(* are sequences of one-character strings, so that split, startswith,      *)
(* join, int() and the membership tests act on characters as the code's    *)
(* do.  None is a value no string equals.                                  *)
(***************************************************************************)
EXTENDS Integers, Sequences, FiniteSets, TLC

VARIABLES pc, call, params, requests, response, result, lines

vars == <<pc, call, params, requests, response, result, lines>>

\* ------------------------------------------------------------ bounds
\* Longest key id handed to retrieve.
MaxKeyIdLen == 42
\* Longest options tuple.
MaxOptions == 2
\* Longest other_variables tuple.
MaxExtra == 2
\* Most pub/uid lines in an index response.
MaxLines == 3
\* Largest algorithm id a pub line carries in the single-key responses.
MaxAlgorithm == 111

\* ------------------------------------------------------------ strings
\* None where a string is expected, and None where a tuple of strings is
None == <<"None">>
NoneT == << <<"None", "None">> >>

Digits == <<"0", "1", "2", "3", "4", "5", "6", "7", "8", "9">>

S_empty == <<>>
S_colon == <<":">>
S_comma == <<",">>
S_pub == <<"p", "u", "b">>
S_uid == <<"u", "i", "d">>
S_uid_colon == <<"u", "i", "d", ":">>
S_info == <<"i", "n", "f", "o">>
S_0x == <<"0", "x">>
S_x_dash == <<"x", "-">>
S_mr == <<"m", "r">>
S_nm == <<"n", "m">>
S_index == <<"i", "n", "d", "e", "x">>
S_get == <<"g", "e", "t">>
S_on == <<"o", "n">>
S_off == <<"o", "f", "f">>
S_search == <<"s", "e", "a", "r", "c", "h">>
S_op == <<"o", "p">>
S_options == <<"o", "p", "t", "i", "o", "n", "s">>
S_exact == <<"e", "x", "a", "c", "t">>
S_keytext == <<"k", "e", "y", "t", "e", "x", "t">>

\* str.startswith
StartsWith(s, p) == Len(s) >= Len(p) /\ SubSeq(s, 1, Len(p)) = p

\* c in s, for a one-character c
Contains(c, s) == \E i \in 1..Len(s) : s[i] = c

\* str.find, 1-based; 0 when sep does not occur
Find(s, sep) ==
    LET Hit(i) == SubSeq(s, i, i + Len(sep) - 1) = sep
        Where == {i \in 1..(Len(s) - Len(sep) + 1) : Hit(i)}
    IN IF Where = {} THEN 0 ELSE CHOOSE i \in Where : \A j \in Where : i <= j

\* str.split(sep): the pieces between the non-overlapping occurrences of sep,
\* found left to right
RECURSIVE Split(_, _)
Split(s, sep) ==
    LET i == Find(s, sep)
    IN IF i = 0 THEN <<s>>
       ELSE <<SubSeq(s, 1, i - 1)>> \o Split(SubSeq(s, i + Len(sep), Len(s)), sep)

\* sep.join(parts)
RECURSIVE Join(_, _)
Join(parts, sep) ==
    IF parts = <<>> THEN <<>>
    ELSE IF Len(parts) = 1 THEN parts[1]
    ELSE parts[1] \o sep \o Join(Tail(parts), sep)

\* str.replace('\n', '').replace('\r', '')
StripLineBreaks(s) == SelectSeq(s, LAMBDA c : c \notin {"\n", "\r"})

\* str.rstrip()
RECURSIVE RStrip(_)
RStrip(s) ==
    IF s # <<>> /\ s[Len(s)] \in {" ", "\n", "\r", "\t"}
    THEN RStrip(SubSeq(s, 1, Len(s) - 1))
    ELSE s

\* int(s) accepts s: a non-empty run of decimal digits
IsDecimal(s) == s # <<>> /\ \A i \in 1..Len(s) : \E d \in 1..10 : Digits[d] = s[i]

DigitVal(c) == (CHOOSE d \in 1..10 : Digits[d] = c) - 1

\* int(s)
RECURSIVE ToInt(_)
ToInt(s) ==
    IF s = <<>> THEN 0
    ELSE 10 * ToInt(SubSeq(s, 1, Len(s) - 1)) + DigitVal(s[Len(s)])

\* the decimal text of n, as the keyserver writes a number
RECURSIVE ToStr(_)
ToStr(n) ==
    IF n < 10 THEN <<Digits[n + 1]>>
    ELSE ToStr(n \div 10) \o <<Digits[(n % 10) + 1]>>

\* ------------------------------------------------------------ outcomes
Returned(v) == [raised |-> "none", value |-> v]
Raised(e) == [raised |-> e, value |-> None]
NoResult == [raised |-> "pending", value |-> None]
NoParams == <<>>
NoCall == [op |-> "none"]
NoResponse == [kind |-> "none", code |-> 0]

\* ------------------------------------------------------------ lookup_pubkey_algorithm
public_key_algorithms ==
    [alg \in {1, 2, 3, 16, 17, 18, 19, 20, 21} |->
        CASE alg = 1 -> "RSA Encrypt or Sign"
          [] alg = 2 -> "RSA Encrypt-Only"
          [] alg = 3 -> "RSA Sign-Only"
          [] alg = 16 -> "ElGamal Encrypt-Only"
          [] alg = 17 -> "DSA"
          [] alg = 18 -> "Elliptic Curve"
          [] alg = 19 -> "ECDSA"
          [] alg = 20 -> "Formerly ElGamal Encrypt or Sign"
          [] alg = 21 -> "Diffie-Hellman"]

\* A slip in the range test: the upper end left out.
lookup_pubkey_algorithm_open_range(alg) ==
    IF 100 <= alg /\ alg < 110 THEN "Private/Experimental algorithm"
    ELSE IF alg \in DOMAIN public_key_algorithms THEN public_key_algorithms[alg]
    ELSE "Unknown"

lookup_pubkey_algorithm(alg) ==
    IF 100 <= alg /\ alg <= 110 THEN "Private/Experimental algorithm"
    ELSE IF alg \in DOMAIN public_key_algorithms THEN public_key_algorithms[alg]
    ELSE "Unknown"

\* ------------------------------------------------------------ _parse_index
\* datetime.utcfromtimestamp(n): the instant n seconds after the epoch
Datetime(n) == <<"datetime", n>>

\* int(date) raises ValueError
DateRaises(date) == date # S_empty /\ ~IsDecimal(date)

convert_date_if_set(date) ==
    IF date # S_empty THEN Datetime(ToInt(date)) ELSE None

EmptyDict == <<>>

IsEmptyDict(d) == DOMAIN d = {}

\* key_dict['primary_key'] = {...}, value has more than 4 fields.  The dict
\* display is evaluated entry by entry; the first entry that raises ends it.
PrimaryKey(value) ==
    IF ~IsDecimal(value[3]) THEN Raised("ValueError")
    ELSE IF ~IsDecimal(value[4]) THEN Raised("ValueError")
    ELSE IF DateRaises(value[5]) THEN Raised("ValueError")
    ELSE IF Len(value) < 6 THEN Raised("IndexError")
    ELSE IF DateRaises(value[6]) THEN Raised("ValueError")
    ELSE IF Len(value) < 7 THEN Raised("IndexError")
    ELSE Returned([key_id |-> value[2],
                   algorithm_id |-> ToInt(value[3]),
                   algorithm |-> lookup_pubkey_algorithm(ToInt(value[3])),
                   key_length |-> ToInt(value[4]),
                   creation |-> convert_date_if_set(value[5]),
                   expiration |-> convert_date_if_set(value[6]),
                   revoked |-> Contains("r", value[7]),
                   disabled |-> Contains("d", value[7]),
                   expired |-> Contains("e", value[7])])

\* uid = {...}, value has at most 4 fields
UserId(value) ==
    IF Len(value) < 2 THEN Raised("IndexError")
    ELSE IF DateRaises(value[2]) THEN Raised("ValueError")
    ELSE IF Len(value) < 3 THEN Raised("IndexError")
    ELSE IF DateRaises(value[3]) THEN Raised("ValueError")
    ELSE IF Len(value) < 4 THEN Raised("IndexError")
    ELSE Returned([user_id |-> value[1],
                   creation |-> convert_date_if_set(value[2]),
                   expiration |-> convert_date_if_set(value[3]),
                   revoked |-> Contains("r", value[4]),
                   disabled |-> Contains("d", value[4]),
                   expired |-> Contains("e", value[4])])

\* for value in key_str: ... (the inner loop, key_dict as built so far)
RECURSIVE ParseValues(_, _)
ParseValues(key_str, key_dict) ==
    IF key_str = <<>> THEN Returned(key_dict)
    ELSE LET value == Split(Head(key_str), S_colon)
         IN IF Len(value) > 4
            THEN LET r == PrimaryKey(value)
                 IN IF r.raised # "none" THEN r
                    ELSE ParseValues(Tail(key_str),
                                     [key_dict EXCEPT !.primary_key = r.value])
            ELSE LET r == UserId(value)
                 IN IF r.raised # "none" THEN r
                    ELSE ParseValues(Tail(key_str),
                                     [key_dict EXCEPT !.user_ids = Append(@, r.value)])

\* for key_str in keys_split: ... (the outer loop, keys as built so far)
RECURSIVE ParseKeys(_, _)
ParseKeys(keys_split, keys) ==
    IF keys_split = <<>> THEN Returned(keys)
    ELSE IF StartsWith(Head(keys_split), S_info) THEN ParseKeys(Tail(keys_split), keys)
    ELSE LET r == ParseValues(Split(Head(keys_split), S_uid_colon),
                              [primary_key |-> EmptyDict, user_ids |-> <<>>])
         IN IF r.raised # "none" THEN r
            ELSE ParseKeys(Tail(keys_split), Append(keys, r.value))

\* keys_split = mr_keyserver_answer.split('pub')
KeysSplit(answer) == Split(answer, S_pub)

_parse_index(mr_keyserver_answer) ==
    ParseKeys(KeysSplit(StripLineBreaks(mr_keyserver_answer)), <<>>)

\* ------------------------------------------------------------ the keyserver's answer
\* One line of the machine readable index: its tag and its fields,
\* <tag>:<field>:<field>..., ended by a line break.
Line(tag, fields) == [tag |-> tag, fields |-> fields]

RenderLine(l) ==
    IF l.tag = "blank" THEN <<"\n">>
    ELSE (CASE l.tag = "info" -> S_info [] l.tag = "pub" -> S_pub [] l.tag = "uid" -> S_uid)
         \o S_colon \o Join(l.fields, S_colon) \o <<"\n">>

RECURSIVE Render(_)
Render(ls) == IF ls = <<>> THEN <<>> ELSE RenderLine(Head(ls)) \o Render(Tail(ls))

\* The lines a keyserver is taken to send in the multi-key responses: two
\* well-formed pub lines, one with three fields only and one with four; three
\* well-formed uid lines, one whose text holds the letters pub, and one uid
\* line with three fields only.
PubFieldsSmall ==
    { << <<"A", "B">>, <<"1", "7">>, <<"8">>, <<"1">>, <<>>, <<>> >>,
      << <<"C", "D">>, <<"1">>, <<"8">>, <<>>, <<"2">>, <<"r">> >>,
      << <<"1", "2">>, <<"1", "7">>, <<>> >>,
      << <<"A", "B">>, <<"1", "7">>, <<"8">>, <<"1">> >> }

UidFieldsSmall ==
    { << <<"J", "o">>, <<"1">>, <<>>, <<>> >>,
      << <<"B", "o">>, <<"0">>, <<>>, <<"e">> >>,
      << <<"p", "u", "b", "s">>, <<>>, <<>>, <<>> >>,
      << <<"J", "o">>, <<"1">>, <<>> >> }

KeyIdTexts == { <<"A", "B">> }
FlagTexts ==
    { <<>>, <<"r">>, <<"d">>, <<"e">>, <<"r", "d">>, <<"r", "e">>, <<"d", "e">>,
      <<"r", "d", "e">> }
DateTexts == { <<>>, ToStr(0), ToStr(7) }
KeyLengths == { 8, 2048 }

\* Every well-formed pub line over the field values above.
PubFieldsAny ==
    { <<k, ToStr(a), ToStr(l), c, e, f>> :
        k \in KeyIdTexts, a \in 0..MaxAlgorithm, l \in KeyLengths,
        c \in DateTexts, e \in {<<>>, ToStr(12)}, f \in FlagTexts }

NPubUid(ls) == Len(SelectSeq(ls, LAMBDA l : l.tag \in {"pub", "uid"}))
HasPub(ls) == \E i \in 1..Len(ls) : ls[i].tag = "pub"

\* ------------------------------------------------------------ _parse_options
\* ops after the loop: 'mr' and the options kept
OptionSet(options) ==
    {S_mr} \cup
    (IF options # NoneT /\ options[1] # None
     THEN {options[i] : i \in {j \in 1..Len(options) :
                                  options[j] = S_nm \/ StartsWith(options[j], S_x_dash)}}
     ELSE {})

\* the orders in which a set may be iterated
Orderings(S) ==
    {p \in [1..Cardinality(S) -> S] : \A i, j \in 1..Cardinality(S) : p[i] = p[j] => i = j}

\* The outcomes of _parse_options(options): options[0] of an empty tuple raises
\* IndexError; otherwise the set is joined in the order the set is iterated in,
\* which the language leaves open.
_parse_options(options) ==
    IF options # NoneT /\ options = <<>> THEN {Raised("IndexError")}
    ELSE {Returned(Join(p, S_comma)) : p \in Orderings(OptionSet(options))}

\* ------------------------------------------------------------ retrieve
\* A slip in the accepted lengths: 10 left out.
KeyIdInvalid_without_10(key_id) ==
    key_id = None \/ Len(key_id) \notin {8, 16, 20, 32, 34, 40, 42}

\* key_id is None or len(key_id) not in (8, 10, 16, 20, 32, 34, 40, 42)
KeyIdInvalid(key_id) ==
    key_id = None \/ Len(key_id) \notin {8, 10, 16, 20, 32, 34, 40, 42}

\* if not key_id.startswith('0x'): key_id = '0x' + key_id
KeyIdPrefixed(key_id) ==
    IF ~StartsWith(key_id, S_0x) THEN S_0x \o key_id ELSE key_id

RetrieveParams(key_id, options) ==
    [n \in {S_search, S_op, S_options} |->
        CASE n = S_search -> key_id
          [] n = S_op -> S_get
          [] n = S_options -> options]

\* ------------------------------------------------------------ search
OperationAllowed(operation) ==
    operation = S_index \/ StartsWith(operation, S_x_dash)

SearchParams(query, operation, exact, options) ==
    [n \in {S_search, S_op, S_options, S_exact} |->
        CASE n = S_search -> query
          [] n = S_op -> operation
          [] n = S_options -> options
          [] n = S_exact -> IF exact \in {S_on, S_off} THEN exact ELSE S_off]

\* A slip in the loop: the test of the name left out.
RECURSIVE MergeOther_unfiltered(_, _)
MergeOther_unfiltered(p, other_variables) ==
    IF other_variables = <<>> THEN p
    ELSE LET var == Head(other_variables)
         IN MergeOther_unfiltered((var[1] :> var[2]) @@ p, Tail(other_variables))

\* for var in other_variables: if var[0].startswith('x-'): params[var[0]] = var[1]
RECURSIVE MergeOther(_, _)
MergeOther(p, other_variables) ==
    IF other_variables = <<>> THEN p
    ELSE LET var == Head(other_variables)
         IN MergeOther(IF StartsWith(var[1], S_x_dash) THEN (var[1] :> var[2]) @@ p ELSE p,
                       Tail(other_variables))

\* ------------------------------------------------------------ submit
SubmitParams(keys, options) ==
    [n \in {S_keytext, S_options} |->
        CASE n = S_keytext -> keys
          [] n = S_options -> options]

\* ------------------------------------------------------------ the callers' arguments
RECURSIVE SeqsUpTo(_, _)
SeqsUpTo(S, n) ==
    IF n = 0 THEN {<<>>}
    ELSE LET shorter == SeqsUpTo(S, n - 1)
         IN shorter \cup {Append(q, x) : q \in {r \in shorter : Len(r) = n - 1}, x \in S}

RECURSIVE Repeat(_, _)
Repeat(c, n) == IF n = 0 THEN <<>> ELSE <<c>> \o Repeat(c, n - 1)

\* a key id of n characters, with or without the 0x in front
KeyIdText(prefixed, n) ==
    IF prefixed THEN S_0x \o Repeat("A", n - 2) ELSE Repeat("A", n)

KeyIdArgs ==
    {None} \cup {KeyIdText(FALSE, n) : n \in 0..MaxKeyIdLen}
           \cup {KeyIdText(TRUE, n) : n \in 2..MaxKeyIdLen}

OptionTexts == {S_nm, <<"x", "-", "d">>, <<"t", "e", "s", "t">>, S_mr}
OptionTextsCall == {S_nm, <<"x", "-", "d">>, <<"t", "e", "s", "t">>}

\* None, the default (None,), and the tuples of option strings
OptionsArgs == {NoneT, <<None>>} \cup SeqsUpTo(OptionTexts, MaxOptions)
OptionsArgsCall == {NoneT, <<None>>} \cup SeqsUpTo(OptionTextsCall, MaxOptions)

OperationArgs == {S_index, <<"x", "-", "c">>, <<"y", "-", "b">>}
ExactArgs == {S_on, S_off, <<"y", "e", "s">>}
QueryArgs == {<<"J", "o">>}
OtherNames == {<<"x", "-", "a">>, S_op}
OtherValues == {<<"1">>, <<"2">>}

\* the default (None,), and the tuples of (name, value) pairs
OtherVariablesArgs ==
    {<<None>>} \cup SeqsUpTo({<<n, v>> : n \in OtherNames, v \in OtherValues}, MaxExtra)

KeysArgs == {None, <<"K">>}

\* what the keyserver may answer
KeyAnswers == {<<"K">>, <<"K", "\n">>}
IndexAnswers ==
    { <<Line("info", <<ToStr(1), ToStr(0)>>)>>,
      <<Line("info", <<ToStr(1), ToStr(1)>>),
        Line("pub", << <<"A", "B">>, <<"1", "7">>, <<"8">>, <<"1">>, <<>>, <<>> >>),
        Line("uid", << <<"J", "o">>, <<"1">>, <<>>, <<>> >>)>> }
ErrorCodes == {404, 500}

\* ------------------------------------------------------------ state machine
Init ==
    /\ pc = "idle"
    /\ call = NoCall
    /\ params = NoParams
    /\ requests = 0
    /\ response = NoResponse
    /\ result = NoResult
    /\ lines = <<>>

\* The keyserver writes its answer, line by line.
ServerBlank ==
    /\ pc = "idle" /\ lines = <<>>
    /\ lines' = <<Line("blank", <<>>)>>
    /\ UNCHANGED <<pc, call, params, requests, response, result>>

ServerInfo ==
    /\ pc = "idle" /\ lines = <<>>
    /\ lines' = <<Line("info", <<ToStr(1), ToStr(1)>>)>>
    /\ UNCHANGED <<pc, call, params, requests, response, result>>

ServerPub ==
    /\ pc = "idle" /\ NPubUid(lines) < MaxLines
    /\ \A i \in 1..Len(lines) : lines[i].tag # "blank"
    /\ \E fields \in PubFieldsSmall : lines' = Append(lines, Line("pub", fields))
    /\ UNCHANGED <<pc, call, params, requests, response, result>>

ServerUid ==
    /\ pc = "idle" /\ NPubUid(lines) < MaxLines
    /\ HasPub(lines)
    /\ \E fields \in UidFieldsSmall : lines' = Append(lines, Line("uid", fields))
    /\ UNCHANGED <<pc, call, params, requests, response, result>>

\* A single-key answer: the info line, then one pub line.
ServerPubAny ==
    /\ pc = "idle" /\ Len(lines) = 1 /\ lines[1].tag = "info"
    /\ \E fields \in PubFieldsAny : lines' = Append(lines, Line("pub", fields))
    /\ UNCHANGED <<pc, call, params, requests, response, result>>

\* hkp._parse_index(answer) on the whole answer
ParseIndex ==
    /\ pc = "idle"
    /\ pc' = "done"
    /\ call' = [op |-> "_parse_index"]
    /\ result' = _parse_index(Render(lines))
    /\ UNCHANGED <<params, requests, response, lines>>

NextIndex ==
    \/ ServerBlank
    \/ ServerInfo
    \/ ServerPub
    \/ ServerUid
    \/ ParseIndex

SpecIndex == Init /\ [][NextIndex]_vars

NextPubKey ==
    \/ ServerInfo
    \/ ServerPubAny
    \/ ParseIndex

SpecPubKey == Init /\ [][NextPubKey]_vars

\* ------------------------------------------------------------ the client's calls
\* hkp._parse_options(options), called directly
ParseOptions ==
    /\ pc = "idle"
    /\ \E options \in OptionsArgs :
          /\ call' = [op |-> "_parse_options", options |-> options]
          /\ result' \in _parse_options(options)
    /\ pc' = "done"
    /\ UNCHANGED <<params, requests, response, lines>>

\* hkp.retrieve(key_id, options), up to and including urlopen(url)
Retrieve ==
    /\ pc = "idle"
    /\ \E key_id \in KeyIdArgs, options \in OptionsArgsCall :
          /\ call' = [op |-> "retrieve", key_id |-> key_id, options |-> options]
          /\ IF KeyIdInvalid(key_id)
             THEN /\ result' = Raised("ValueError: no or invalid key id")
                  /\ params' = NoParams /\ requests' = 0 /\ pc' = "done"
             ELSE \E o \in _parse_options(options) :
                     IF o.raised # "none"
                     THEN /\ result' = o
                          /\ params' = NoParams /\ requests' = 0 /\ pc' = "done"
                     ELSE /\ params' = RetrieveParams(KeyIdPrefixed(key_id), o.value)
                          /\ requests' = requests + 1 /\ pc' = "sent"
                          /\ result' = NoResult
    /\ UNCHANGED <<response, lines>>

\* hkp.search(query, operation, exact, options, other_variables), up to and
\* including urlopen(url)
Search ==
    /\ pc = "idle"
    /\ \E query \in QueryArgs, operation \in OperationArgs, exact \in ExactArgs,
          options \in OptionsArgsCall, other_variables \in OtherVariablesArgs :
          /\ call' = [op |-> "search", query |-> query, operation |-> operation,
                      exact |-> exact, options |-> options,
                      other_variables |-> other_variables]
          /\ IF ~OperationAllowed(operation)
             THEN /\ result' = Raised("ValueError: operation not allowed")
                  /\ params' = NoParams /\ requests' = 0 /\ pc' = "done"
             ELSE \E o \in _parse_options(options) :
                     IF o.raised # "none"
                     THEN /\ result' = o
                          /\ params' = NoParams /\ requests' = 0 /\ pc' = "done"
                     ELSE IF other_variables = <<>>
                     THEN /\ result' = Raised("IndexError")
                          /\ params' = SearchParams(query, operation, exact, o.value)
                          /\ requests' = 0 /\ pc' = "done"
                     ELSE /\ params' =
                               IF other_variables[1] # None
                               THEN MergeOther(SearchParams(query, operation, exact, o.value),
                                               other_variables)
                               ELSE SearchParams(query, operation, exact, o.value)
                          /\ requests' = requests + 1 /\ pc' = "sent"
                          /\ result' = NoResult
    /\ UNCHANGED <<response, lines>>

\* hkp.submit(keys, options), up to and including urlopen(url, data)
Submit ==
    /\ pc = "idle"
    /\ \E keys \in KeysArgs, options \in OptionsArgsCall :
          /\ call' = [op |-> "submit", keys |-> keys, options |-> options]
          /\ IF keys = None
             THEN /\ result' = Raised("ValueError: no key(s) given")
                  /\ params' = NoParams /\ requests' = 0 /\ pc' = "done"
             ELSE \E o \in _parse_options(options) :
                     IF o.raised # "none"
                     THEN /\ result' = o
                          /\ params' = NoParams /\ requests' = 0 /\ pc' = "done"
                     ELSE /\ params' = SubmitParams(keys, o.value)
                          /\ requests' = requests + 1 /\ pc' = "sent"
                          /\ result' = NoResult
    /\ UNCHANGED <<response, lines>>

\* urlopen returns a response; the call goes on to its return statement
UrlopenReturns ==
    /\ pc = "sent"
    /\ response' = [kind |-> "ok", code |-> 200]
    /\ \/ /\ call.op = "retrieve"
          /\ \E text \in KeyAnswers : result' = Returned(RStrip(text))
          /\ lines' = lines
       \/ /\ call.op = "search"
          /\ \E answer \in IndexAnswers :
                /\ lines' = answer
                /\ result' = _parse_index(Render(answer))
       \/ /\ call.op = "submit"
          /\ result' = Returned(200)
          /\ lines' = lines
    /\ pc' = "done"
    /\ UNCHANGED <<call, params, requests>>

\* urlopen raises HTTPError: the except clause of the call
UrlopenHTTPError ==
    /\ pc = "sent"
    /\ \E code \in ErrorCodes :
          /\ response' = [kind |-> "HTTPError", code |-> code]
          /\ result' = IF call.op = "submit" THEN Returned(code) ELSE Returned(None)
    /\ pc' = "done"
    /\ UNCHANGED <<call, params, requests, lines>>

\* urlopen raises URLError (no connection): no except clause catches it
UrlopenURLError ==
    /\ pc = "sent"
    /\ response' = [kind |-> "URLError", code |-> 0]
    /\ result' = Raised("URLError")
    /\ pc' = "done"
    /\ UNCHANGED <<call, params, requests, lines>>

Next ==
    \/ ParseOptions
    \/ Retrieve
    \/ Search
    \/ Submit
    \/ UrlopenReturns
    \/ UrlopenHTTPError
    \/ UrlopenURLError

Spec == Init /\ [][Next]_vars

\* ------------------------------------------------------------ claims
HasParams == DOMAIN params # {}

AcceptedLengths == {8, 10, 16, 20, 32, 34, 40, 42}

\* the tokens of an encoded options string
Tokens(encoded) == Split(encoded, S_comma)

\* the supplied options that equal 'nm' or begin with 'x-'
KeptOptions(options) ==
    IF options = NoneT \/ options = <<None>> THEN {}
    ELSE {options[i] : i \in {j \in 1..Len(options) :
                                 options[j] = S_nm \/ SubSeq(options[j], 1, 2) = S_x_dash}}

\* encoded holds 'mr' and the kept options, each exactly once, and nothing else
EncodesOptions(encoded, options) ==
    /\ {Tokens(encoded)[i] : i \in 1..Len(Tokens(encoded))} = {S_mr} \cup KeptOptions(options)
    /\ Len(Tokens(encoded)) = Cardinality({S_mr} \cup KeptOptions(options))

C2_NormalizeIdempotent ==
    (call.op = "retrieve" /\ HasParams) =>
        /\ ~KeyIdInvalid(params[S_search])
        /\ KeyIdPrefixed(params[S_search]) = params[S_search]

\* the call's input is invalid, and the error it must then end with
InvalidInput ==
    CASE call.op = "retrieve" ->
            call.key_id = None \/ Len(call.key_id) \notin AcceptedLengths
      [] call.op = "search" ->
            call.operation # S_index /\ SubSeq(call.operation, 1, 2) # S_x_dash
      [] call.op = "submit" -> call.keys = None

InputError ==
    CASE call.op = "retrieve" -> "ValueError: no or invalid key id"
      [] call.op = "search" -> "ValueError: operation not allowed"
      [] call.op = "submit" -> "ValueError: no key(s) given"

\* C3: validation precedes transmission: a retrieve, search or submit with
\* invalid input ends with the corresponding error and no request was handed
\* to the transport; with valid input exactly one request is sent.
C3_ValidationPrecedesTransmission ==
    call.op \in {"retrieve", "search", "submit"} =>
        IF InvalidInput
        THEN pc = "done" /\ result.raised = InputError /\ requests = 0
        ELSE requests = 1

\* C4: for every options argument (absent, the empty sequence, any sequence of
\* strings) encoding never fails and returns 'mr' and the supplied options that
\* equal 'nm' or begin with 'x-', comma-joined, each exactly once.
C4_OptionEncoding ==
    call.op = "_parse_options" =>
        /\ result.raised = "none"
        /\ EncodesOptions(result.value, call.options)

\* the extra pairs of the call: none for the default (None,)
ExtraPairs == IF call.other_variables = <<None>> THEN <<>> ELSE call.other_variables

\* the places of the extra pairs whose name begins with 'x-'
ExtraKept == {i \in 1..Len(ExtraPairs) : SubSeq(ExtraPairs[i][1], 1, 2) = S_x_dash}

\* C5: the parameter map built by search has op = the operation, search = the
\* query, options = the encoded options, exact = the supplied value when that
\* is 'on' or 'off' and 'off' otherwise, every extra name beginning with 'x-'
\* with the value of the last pair carrying it, and no other key.
C5_SearchParams ==
    (call.op = "search" /\ HasParams) =>
        /\ DOMAIN params =
              {S_search, S_op, S_options, S_exact} \cup {ExtraPairs[i][1] : i \in ExtraKept}
        /\ params[S_op] = call.operation
        /\ params[S_search] = call.query
        /\ EncodesOptions(params[S_options], call.options)
        /\ params[S_exact] =
              IF call.exact = S_on THEN S_on
              ELSE IF call.exact = S_off THEN S_off ELSE S_off
        /\ \A i \in ExtraKept :
              (\A j \in ExtraKept : j > i => ExtraPairs[j][1] # ExtraPairs[i][1])
                  => params[ExtraPairs[i][1]] = ExtraPairs[i][2]

\* A search with an exact value other than 'on' and 'off' was sent with two
\* extra pairs of the same 'x-' name and different values, and the map holds
\* the second.
C5_Witness ==
    /\ call.op = "search" /\ pc = "sent" /\ Len(ExtraPairs) = 2
    /\ call.exact \notin {S_on, S_off}
    /\ ExtraPairs[1][1] = ExtraPairs[2][1] /\ ExtraPairs[1][2] # ExtraPairs[2][2]
    /\ 1 \in ExtraKept
    /\ params[ExtraPairs[1][1]] = ExtraPairs[2][2]
    /\ params[S_exact] = S_off

\* C6: whenever the exchange of a retrieve or search fails, by an HTTP error
\* status or by the connection failing, the call returns None and does not
\* crash; submit returns the status code of the exchange, failed or not.
C6_TransportFailure ==
    pc = "done" =>
        /\ (call.op \in {"retrieve", "search"} /\ response.kind \in {"HTTPError", "URLError"})
              => (result.raised = "none" /\ result.value = None)
        /\ (call.op = "submit" /\ response.kind \in {"ok", "HTTPError"})
              => (result.raised = "none" /\ result.value = response.code)

\* ------------------------------------------------------------ claims on the index
Parsed == call.op = "_parse_index"

\* a line with all the fields its format requires
WellFormed(l) ==
    \/ l.tag = "info"
    \/ l.tag = "pub" /\ Len(l.fields) = 6
    \/ l.tag = "uid" /\ Len(l.fields) = 4

TooFewFields(l) ==
    \/ l.tag = "pub" /\ Len(l.fields) < 6
    \/ l.tag = "uid" /\ Len(l.fields) < 4

\* an info line, then pub lines, each followed by its uid lines, all well-formed
WellFormedAnswer(ls) ==
    /\ ls # <<>> /\ ls[1].tag = "info"
    /\ \A i \in 2..Len(ls) : ls[i].tag \in {"pub", "uid"} /\ WellFormed(ls[i])
    /\ Len(ls) >= 2 => ls[2].tag = "pub"

\* the places of the pub lines of ls, in order
PubPlaces(ls) == {i \in 1..Len(ls) : ls[i].tag = "pub"}

\* the place of the n-th pub line of ls
NthPub(ls, n) ==
    CHOOSE i \in PubPlaces(ls) : Cardinality({j \in PubPlaces(ls) : j <= i}) = n

\* the user-id texts of the uid lines that follow the pub line at place i, up
\* to the next pub line
RECURSIVE UidTextsFrom(_, _)
UidTextsFrom(ls, i) ==
    IF i > Len(ls) \/ ls[i].tag # "uid" THEN <<>>
    ELSE <<ls[i].fields[1]>> \o UidTextsFrom(ls, i + 1)

\* C7: for every answer made of an info line and n >= 0 pub lines, each followed
\* by its well-formed uid lines, whatever the user-id text (text holding the
\* letters 'pub' included), parsing returns exactly n records in the order of
\* the pub lines, the i-th with the i-th pub line's key id and its identities
\* in the order of their uid lines.
C7_IndexStructure ==
    (Parsed /\ WellFormedAnswer(lines)) =>
        /\ result.raised = "none"
        /\ Len(result.value) = Cardinality(PubPlaces(lines))
        /\ \A n \in 1..Len(result.value) :
              LET rec == result.value[n]
                  at == NthPub(lines, n)
              IN /\ ~IsEmptyDict(rec.primary_key)
                 /\ rec.primary_key.key_id = lines[at].fields[1]
                 /\ [j \in 1..Len(rec.user_ids) |-> rec.user_ids[j].user_id]
                       = UidTextsFrom(lines, at + 1)

\* C8: an answer in which a pub line or a uid line has fewer fields than its
\* format requires makes parsing fail; no record with an empty primary key,
\* and no pub line's fields as an identity, is returned.
C8_MalformedFailsFast ==
    (Parsed /\ \E i \in 1..Len(lines) : TooFewFields(lines[i])) => result.raised # "none"

\* C9: an answer without any pub line (the empty answer, line breaks only,
\* just an info line) parses to the empty sequence, without failing.
C9_NoKeysEmpty ==
    (Parsed /\ PubPlaces(lines) = {}) => (result.raised = "none" /\ result.value = <<>>)

\* the name of an algorithm id, as the claim gives it
AlgorithmName(id) ==
    IF id \in 100..110 THEN "Private/Experimental algorithm"
    ELSE CASE id = 1 -> "RSA Encrypt or Sign"
           [] id = 2 -> "RSA Encrypt-Only"
           [] id = 3 -> "RSA Sign-Only"
           [] id = 16 -> "ElGamal Encrypt-Only"
           [] id = 17 -> "DSA"
           [] id = 18 -> "Elliptic Curve"
           [] id = 19 -> "ECDSA"
           [] id = 20 -> "Formerly ElGamal Encrypt or Sign"
           [] id = 21 -> "Diffie-Hellman"
           [] OTHER -> "Unknown"

\* the number a decimal field was written from
NumberOf(text) == CHOOSE n \in (0..MaxAlgorithm) \cup KeyLengths : ToStr(n) = text

\* a date field decodes to d: absent exactly when empty
DecodesDate(text, d) ==
    /\ (d = None) <=> (text = S_empty)
    /\ text # S_empty => d = Datetime(NumberOf(text))

\* C10: the primary key decoded from a well-formed pub line has the line's key
\* id, algorithm id and key length, the algorithm's name, creation and
\* expiration absent exactly when their field is empty ('0' is the epoch), and
\* revoked, disabled, expired exactly when the flags hold r, d, e.
C10_PrimaryKeyDecoding ==
    (Parsed /\ WellFormedAnswer(lines) /\ Len(lines) = 2) =>
        /\ result.raised = "none" /\ Len(result.value) = 1
        /\ LET pk == result.value[1].primary_key
               f == lines[2].fields
           IN /\ pk.key_id = f[1]
              /\ pk.algorithm_id = NumberOf(f[2])
              /\ pk.algorithm = AlgorithmName(NumberOf(f[2]))
              /\ pk.key_length = NumberOf(f[3])
              /\ DecodesDate(f[4], pk.creation)
              /\ DecodesDate(f[5], pk.expiration)
              /\ pk.revoked <=> (\E i \in 1..Len(f[6]) : f[6][i] = "r")
              /\ pk.disabled <=> (\E i \in 1..Len(f[6]) : f[6][i] = "d")
              /\ pk.expired <=> (\E i \in 1..Len(f[6]) : f[6][i] = "e")
              /\ result.value[1].user_ids = <<>>

\* A pub line with a private algorithm id, creation '0', no expiration and the
\* flags r and e was decoded.
C10_Witness ==
    /\ Parsed /\ Len(lines) = 2 /\ result.raised = "none"
    /\ lines[2].fields[2] = ToStr(110)
    /\ lines[2].fields[4] = ToStr(0)
    /\ lines[2].fields[6] = <<"r", "e">>
    /\ result.value[1].primary_key.algorithm = "Private/Experimental algorithm"
    /\ result.value[1].primary_key.creation = Datetime(0)
    /\ result.value[1].primary_key.expiration = None
    /\ ~result.value[1].primary_key.disabled

====
